---------------------------- MODULE Spec2Model ----------------------------
(***************************************************************************)
(* Model of server/gemma_proxy.py: the POST /api/rerank handler, which     *)
(* encodes a context and candidates into a prompt, runs the external       *)
(* "ollama run gemma3:4b" process on it and validates the text it prints.  *)
(*                                                                         *)
(* Text is modelled as a sequence of one-character strings, JSON / Python  *)
(* values as records [k, n, s] (kind, integer payload, sequence payload),  *)
(* and a float that the model needs the digits of as a number of quarters  *)
(* (every multiple of 1/4 is an exact binary float).                       *)
(***************************************************************************)
EXTENDS Integers, Sequences, FiniteSets, TLC

VARIABLES
    pc,        \* per request: where its handler stands
    req,       \* per request: the validated body (RerankIn), while in flight
    proc,      \* per request: the external process of subprocess.run
    launches,  \* per request: how many times the process was launched
    resp,      \* per request: the HTTP response
    encIn,     \* input of the prompt encoder run on its own
    encOut,    \* its result
    valIn,     \* process result given to the response validator run on its own
    valOut     \* its result

vars == <<pc, req, proc, launches, resp, encIn, encOut, valIn, valOut>>

---------------------------------------------------------------------------
(* Results of a computation that may raise.                                *)

Ok(v) == [ok |-> TRUE, exc |-> "", val |-> v]

Raise(e) == [ok |-> FALSE, exc |-> e, val |-> <<>>]

Min(a, b) == IF a < b THEN a ELSE b

\* a \o b of two texts or lists computed in this order: the first of the
\* two computations that raises ends it
Cat(a, b) ==
    IF ~a.ok THEN a ELSE IF ~b.ok THEN b ELSE Ok(a.val \o b.val)

\* the one-element list [x] of a computed x
One(x) == IF x.ok THEN Ok(<<x.val>>) ELSE x

---------------------------------------------------------------------------
(* Values.                                                                 *)

JNone == [k |-> "none", n |-> 0, s |-> <<>>]

JInt(i) == [k |-> "int", n |-> i, s |-> <<>>]

JBool(b) == [k |-> "bool", n |-> IF b THEN 1 ELSE 0, s |-> <<>>]

\* a float keeps the text it was read from
JFloat(text) == [k |-> "float", n |-> 0, s |-> text]

JStr(chars) == [k |-> "str", n |-> 0, s |-> chars]

JList(items) == [k |-> "list", n |-> 0, s |-> items]

\* a value of the ctx dictionary: absent/null, a number (q quarters), a
\* boolean (q is 0 or 1) or a string (q is its length)
CNone == [k |-> "none", q |-> 0]

CNum(q) == [k |-> "num", q |-> q]

CBool(b) == [k |-> "bool", q |-> IF b THEN 1 ELSE 0]

CStr(len) == [k |-> "str", q |-> len]

---------------------------------------------------------------------------
(* Text.                                                                   *)

DigitChar == <<"0", "1", "2", "3", "4", "5", "6", "7", "8", "9">>

LowerChars ==
    <<"a", "b", "c", "d", "e", "f", "g", "h", "i", "j", "k", "l", "m",
      "n", "o", "p", "q", "r", "s", "t", "u", "v", "w", "x", "y", "z">>

UpperChars ==
    <<"A", "B", "C", "D", "E", "F", "G", "H", "I", "J", "K", "L", "M",
      "N", "O", "P", "Q", "R", "S", "T", "U", "V", "W", "X", "Y", "Z">>

\* str.upper() of one character
Upper(c) ==
    IF \E i \in 1..Len(LowerChars) : LowerChars[i] = c
    THEN UpperChars[CHOOSE i \in 1..Len(LowerChars) : LowerChars[i] = c]
    ELSE c

RECURSIVE NatToStr(_)
NatToStr(n) ==
    IF n < 10 THEN <<DigitChar[n + 1]>>
    ELSE NatToStr(n \div 10) \o <<DigitChar[(n % 10) + 1]>>

\* str(i) of an int
IntToStr(i) == IF i < 0 THEN <<"-">> \o NatToStr(-i) ELSE NatToStr(i)

RECURSIVE Pow10(_)
Pow10(d) == IF d = 0 THEN 1 ELSE 10 * Pow10(d - 1)

RECURSIVE ZeroPad(_, _)
ZeroPad(text, width) ==
    IF Len(text) >= width THEN text ELSE ZeroPad(<<"0">> \o text, width)

\* format(x, ".<d>f") of the float q/4: correctly rounded, ties to even
FixedStr(q, d) ==
    LET m == IF q < 0 THEN -q ELSE q
        n == m * Pow10(d)
        quot == n \div 4
        rem == n % 4
        rounded == IF 2 * rem > 4 \/ (2 * rem = 4 /\ quot % 2 = 1)
                   THEN quot + 1 ELSE quot
    IN  (IF q < 0 THEN <<"-">> ELSE <<>>)
        \o NatToStr(rounded \div Pow10(d)) \o <<".">>
        \o ZeroPad(NatToStr(rounded % Pow10(d)), d)

\* f"{x:.<d>f}" of a ctx value: None has no such format (TypeError), a str
\* rejects the code 'f' (ValueError), a bool is formatted as the int it is
FormatF(x, d) ==
    CASE x.k = "none" -> Raise("TypeError")
      [] x.k = "str" -> Raise("ValueError")
      [] x.k = "bool" -> Ok(FixedStr(4 * x.q, d))
      [] OTHER -> Ok(FixedStr(x.q, d))

\* int(bool(x))
Flag(x) == IF x.k # "none" /\ x.q # 0 THEN <<"1">> ELSE <<"0">>

\* int(f) of the float q/4: towards zero
TruncToInt(q) == IF q >= 0 THEN q \div 4 ELSE -((-q) \div 4)

RECURSIVE JoinWith(_, _)
JoinWith(sep, parts) ==
    IF parts = <<>> THEN <<>>
    ELSE IF Len(parts) = 1 THEN parts[1]
    ELSE parts[1] \o sep \o JoinWith(sep, Tail(parts))

---------------------------------------------------------------------------
(* The prompt encoder, lines 38-55.                                        *)

GOAL_LINE ==
    <<"G", "O", "A", "L", ":", " ", "p", "i", "c", "k", " ", "b", "e", "s", "t", " ",
      "t", "r", "a", "d", "e", "o", "f", "f", " ", "o", "f", " ", "s", "p", "e", "e",
      "d", " ", "v", "s", " ", "h", "a", "z", "a", "r", "d", ".", " ", "P", "r", "e",
      "f", "e", "r", " ", "l", "o", "w", "e", "r", " ", "p", "r", "e", "d", "_", "m",
      "s", " ", "u", "n", "l", "e", "s", "s", " ", "h", "e", "a", "t", "/", "g", "a",
      "s", " ", "i", "m", "p", "l", "y", " ", "s", "e", "n", "s", "i", "n", "g", " ",
      "f", "i", "r", "s", "t", ".", " ", "A", "v", "o", "i", "d", " ", "r", "e", "d",
      "u", "n", "d", "a", "n", "t", " ", "w", "a", "i", "t", "s", ".">>

JSON_ONLY ==
    <<"R", "e", "t", "u", "r", "n", " ", "O", "N", "L", "Y", " ", "a", " ", "J", "S",
      "O", "N", " ", "l", "i", "s", "t", " ", "(", "e", ".", "g", ".", ",", " ", "[",
      "3", ",", "1", ",", "2", "]", ")", ".", " ", "N", "o", " ", "p", "r", "o", "s",
      "e", ".">>

CANDIDATES_HDR == <<"C", "A", "N", "D", "I", "D", "A", "T", "E", "S", ":">>

LidarScan == <<"l", "i", "d", "a", "r", "_", "s", "c", "a", "n">>

ThermalSnap == <<"t", "h", "e", "r", "m", "a", "l", "_", "s", "n", "a", "p">>

GasSniff == <<"g", "a", "s", "_", "s", "n", "i", "f", "f">>

AudioProbe == <<"a", "u", "d", "i", "o", "_", "p", "r", "o", "b", "e">>

Wait == <<"w", "a", "i", "t">>

\* the dictionary abbr of line 52, as the set of its (key, value) pairs
abbr ==
    { <<LidarScan, "L">>, <<ThermalSnap, "T">>, <<GasSniff, "G">>,
      <<AudioProbe, "A">>, <<Wait, "W">> }

\* the text between the gas flag and the noise flag in the f-string of line 39
GasNoiseSep == <<",", " ">>

\* line 39: the f-string evaluates its fields left to right, so the first
\* field that cannot be formatted raises
CtxLine(ctx) ==
    Cat(Ok(<<"C", "T", "X", ":", " ">>),
    Cat(FormatF(ctx.size, 1),
    Cat(Ok(<<",">>),
    Cat(FormatF(ctx.clutter, 2),
        Ok(<<",">> \o Flag(ctx.heat) \o <<",">> \o Flag(ctx.gas)
           \o GasNoiseSep \o Flag(ctx.noise))))))

\* a loop that keeps every step, appending the steps that are no list
RECURSIVE FlattenKeepAll(_)
FlattenKeepAll(stages) ==
    IF stages = <<>> THEN <<>>
    ELSE (IF Head(stages).k = "list" THEN Head(stages).s ELSE <<Head(stages)>>)
         \o FlattenKeepAll(Tail(stages))

\* lines 47-50: flat += step for every step that is a list
RECURSIVE FlattenFrom(_, _)
FlattenFrom(stages, i) ==
    IF i > Len(stages) THEN <<>>
    ELSE (IF stages[i].k = "list" THEN stages[i].s ELSE <<>>)
         \o FlattenFrom(stages, i + 1)

Flatten(stages) == FlattenFrom(stages, 1)

\* line 51: the number of tokens kept by flat[:8]
SigMax == 8

\* line 51: flat[:8]
Truncate(flat) == SubSeq(flat, 1, Min(Len(flat), SigMax))

\* line 53: abbr.get(s, s[:1].upper()); the default is evaluated before the
\* lookup, so a token that is no str raises (a list has no upper(), the
\* other values cannot be sliced)
AbbrOf(tok) ==
    CASE tok.k = "list" -> Raise("AttributeError")
      [] tok.k # "str" -> Raise("TypeError")
      [] \E p \in abbr : p[1] = tok.s ->
            Ok(<<(CHOOSE p \in abbr : p[1] = tok.s)[2]>>)
      [] tok.s = <<>> -> Ok(<<>>)
      [] OTHER -> Ok(<<Upper(tok.s[1])>>)

\* line 53: "".join([... for s in flat]); the first token that raises ends it
RECURSIVE JoinAbbr(_)
JoinAbbr(flat) ==
    IF flat = <<>> THEN Ok(<<>>)
    ELSE Cat(AbbrOf(Head(flat)), JoinAbbr(Tail(flat)))

\* lines 45-53: the signature of a candidate's steps
Signature(steps) ==
    IF steps.k = "list" THEN JoinAbbr(Truncate(Flatten(steps.s)))
    ELSE Ok(<<>>)

\* line 54
CandLine(c) ==
    Cat(Ok(IntToStr(c.index) \o <<":">> \o IntToStr(TruncToInt(c.pred_ms)) \o <<",">>),
        Signature(c.steps))

\* lines 43-54: one line per candidate, in order, until one raises
RECURSIVE CandLines(_)
CandLines(cands) ==
    IF cands = <<>> THEN Ok(<<>>)
    ELSE Cat(One(CandLine(Head(cands))), CandLines(Tail(cands)))

\* lines 38-54: the list lines, or the exception that building it raises
Lines(r) ==
    Cat(Cat(One(CtxLine(r.ctx)), Ok(<<GOAL_LINE, JSON_ONLY, CANDIDATES_HDR>>)),
        CandLines(r.candidates))

\* "\n".join(lines) of computed lines
Joined(ls) == IF ls.ok THEN Ok(JoinWith(<<"\n">>, ls.val)) ELSE ls

\* line 55: prompt = "\n".join(lines)
Prompt(r) == Joined(Lines(r))

---------------------------------------------------------------------------
(* json.loads, line 64: the decoder of the standard library.               *)

\* what str.strip() removes
PyWs == {" ", "\t", "\n", "\r", "\f"}

\* the decoder's WHITESPACE
JsonWs == {" ", "\t", "\n", "\r"}

Digits == {DigitChar[i] : i \in 1..Len(DigitChar)}

HexChars == Digits \cup {"a", "b", "c", "d", "e", "f", "A", "B", "C", "D", "E", "F"}

\* the only thing lines 65-67 observe of a parsed string or object is its
\* type, so their contents are not kept
JDict == [k |-> "dict", n |-> 0, s |-> <<>>]

Good(v, next) == [ok |-> TRUE, val |-> v, pos |-> next]

Bad == [ok |-> FALSE, val |-> JNone, pos |-> 0]

At(s, i) == IF i >= 1 /\ i <= Len(s) THEN s[i] ELSE ""

MatchAt(s, i, word) ==
    i + Len(word) - 1 <= Len(s) /\ SubSeq(s, i, i + Len(word) - 1) = word

RECURSIVE SkipWs(_, _)
SkipWs(s, i) == IF At(s, i) \in JsonWs THEN SkipWs(s, i + 1) ELSE i

RECURSIVE ScanDigits(_, _)
ScanDigits(s, i) == IF At(s, i) \in Digits THEN ScanDigits(s, i + 1) ELSE i

RECURSIVE StrToNat(_)
StrToNat(text) ==
    IF text = <<>> THEN 0
    ELSE 10 * StrToNat(SubSeq(text, 1, Len(text) - 1))
         + ((CHOOSE d \in 1..10 : DigitChar[d] = text[Len(text)]) - 1)

\* NUMBER_RE: an optional "-", then "0" or a run of digits that starts with
\* 1-9, then an optional "." with digits, then an optional exponent; an int
\* when neither the fraction nor the exponent matched
ScanNumber(s, i) ==
    LET first == IF At(s, i) = "-" THEN i + 1 ELSE i
        intEnd == IF At(s, first) = "0" THEN first + 1 ELSE ScanDigits(s, first)
        fracEnd == IF At(s, intEnd) = "." /\ At(s, intEnd + 1) \in Digits
                   THEN ScanDigits(s, intEnd + 1) ELSE intEnd
        expAt == IF At(s, fracEnd + 1) \in {"+", "-"} THEN fracEnd + 2
                 ELSE fracEnd + 1
        expEnd == IF At(s, fracEnd) \in {"e", "E"} /\ At(s, expAt) \in Digits
                  THEN ScanDigits(s, expAt) ELSE fracEnd
        mag == StrToNat(SubSeq(s, first, intEnd - 1))
    IN  IF At(s, first) \notin Digits THEN Bad
        ELSE IF expEnd = intEnd
             THEN Good(JInt(IF first > i THEN -mag ELSE mag), intEnd)
        ELSE Good(JFloat(SubSeq(s, i, expEnd - 1)), expEnd)

\* scanstring, strict: up to the closing quote; control characters and bad
\* escapes are errors
RECURSIVE ScanString(_, _)
ScanString(s, i) ==
    LET c == At(s, i)
    IN  CASE i > Len(s) -> Bad
          [] c = "\"" -> Good(JStr(<<>>), i + 1)
          [] c \in {"\n", "\t", "\r", "\f"} -> Bad
          [] c = "\\" ->
                IF At(s, i + 1) \in {"\"", "\\", "/", "b", "f", "n", "r", "t"}
                THEN ScanString(s, i + 2)
                ELSE IF At(s, i + 1) = "u"
                        /\ \A d \in 2..5 : At(s, i + d) \in HexChars
                THEN ScanString(s, i + 6)
                ELSE Bad
          [] OTHER -> ScanString(s, i + 1)

RECURSIVE ScanOnce(_, _), ScanItems(_, _, _), ScanPairs(_, _)
RECURSIVE NextItem(_, _, _), PairValue(_, _), NextPair(_, _)

\* scan_once: the value that starts at s[i]
ScanOnce(s, i) ==
    LET c == At(s, i)
    IN  CASE c = "\"" -> ScanString(s, i + 1)
          [] c = "[" ->
                LET j == SkipWs(s, i + 1)
                IN  IF At(s, j) = "]" THEN Good(JList(<<>>), j + 1)
                    ELSE ScanItems(s, j, <<>>)
          [] c = "{" ->
                LET j == SkipWs(s, i + 1)
                IN  IF At(s, j) = "}" THEN Good(JDict, j + 1)
                    ELSE ScanPairs(s, j)
          [] c = "n" /\ MatchAt(s, i, <<"n", "u", "l", "l">>) ->
                Good(JNone, i + 4)
          [] c = "t" /\ MatchAt(s, i, <<"t", "r", "u", "e">>) ->
                Good(JBool(TRUE), i + 4)
          [] c = "f" /\ MatchAt(s, i, <<"f", "a", "l", "s", "e">>) ->
                Good(JBool(FALSE), i + 5)
          [] c = "N" /\ MatchAt(s, i, <<"N", "a", "N">>) ->
                Good(JFloat(<<"N", "a", "N">>), i + 3)
          [] c = "I" /\ MatchAt(s, i, <<"I", "n", "f", "i", "n", "i", "t", "y">>) ->
                Good(JFloat(SubSeq(s, i, i + 7)), i + 8)
          [] c = "-" /\ MatchAt(s, i + 1, <<"I", "n", "f", "i", "n", "i", "t", "y">>) ->
                Good(JFloat(SubSeq(s, i, i + 8)), i + 9)
          [] OTHER -> ScanNumber(s, i)

\* JSONArray: the values of an array whose first value starts at s[i]
ScanItems(s, i, acc) == NextItem(s, acc, ScanOnce(s, i))

\* JSONArray after the value v: "]" ends the array, "," precedes a value
NextItem(s, acc, v) ==
    LET j == SkipWs(s, v.pos)
    IN  IF ~v.ok THEN Bad
        ELSE IF At(s, j) = "]" THEN Good(JList(Append(acc, v.val)), j + 1)
        ELSE IF At(s, j) = "," THEN ScanItems(s, SkipWs(s, j + 1), Append(acc, v.val))
        ELSE Bad

\* JSONObject: the pairs of an object whose first key starts at s[i]
ScanPairs(s, i) ==
    PairValue(s, IF At(s, i) = "\"" THEN ScanString(s, i + 1) ELSE Bad)

\* JSONObject after the key: ":" and the value
PairValue(s, key) ==
    LET colon == SkipWs(s, key.pos)
    IN  IF ~key.ok \/ At(s, colon) # ":" THEN Bad
        ELSE NextPair(s, ScanOnce(s, SkipWs(s, colon + 1)))

\* JSONObject after the value v: "}" ends the object, "," precedes a key
NextPair(s, v) ==
    LET j == SkipWs(s, v.pos)
    IN  IF ~v.ok THEN Bad
        ELSE IF At(s, j) = "}" THEN Good(JDict, j + 1)
        ELSE IF At(s, j) = "," THEN ScanPairs(s, SkipWs(s, j + 1))
        ELSE Bad

\* decode: the value must be followed by whitespace only
Whole(txt, v) ==
    IF v.ok /\ SkipWs(txt, v.pos) = Len(txt) + 1 THEN Ok(v.val)
    ELSE Raise("JSONDecodeError")

\* json.loads(txt): one value, whitespace around it, nothing else
Loads(txt) == Whole(txt, ScanOnce(txt, SkipWs(txt, 1)))

---------------------------------------------------------------------------
(* The response validator, lines 60-67.                                    *)

RECURSIVE LStrip(_, _)
LStrip(text, chars) ==
    IF text # <<>> /\ Head(text) \in chars THEN LStrip(Tail(text), chars)
    ELSE text

RECURSIVE RStrip(_, _)
RStrip(text, chars) ==
    IF text # <<>> /\ text[Len(text)] \in chars
    THEN RStrip(SubSeq(text, 1, Len(text) - 1), chars)
    ELSE text

\* str.strip(chars)
Strip(text, chars) == RStrip(LStrip(text, chars), chars)

\* the character U+0060, which a TLA+ string cannot hold
Backtick == "<backtick>"

Fence == <<Backtick, Backtick, Backtick>>

\* the index of the first "\n" of text, 0 when it has none
FirstNewline(text) ==
    IF \E i \in 1..Len(text) : text[i] = "\n"
    THEN CHOOSE i \in 1..Len(text) :
            text[i] = "\n" /\ \A j \in 1..(i - 1) : text[j] # "\n"
    ELSE 0

\* txt.split("\n", 1)[1]
AfterFirstNewline(text) == SubSeq(text, FirstNewline(text) + 1, Len(text))

\* lines 62-63, on a text that starts with the fence
Unfence(text) ==
    LET inner == Strip(Strip(text, {Backtick}), PyWs)
    IN  IF FirstNewline(inner) # 0 THEN Strip(AfterFirstNewline(inner), PyWs)
        ELSE inner

\* lines 60-63: the text handed to json.loads
ParserInput(stdout) ==
    LET txt == Strip(stdout, PyWs)
    IN  IF MatchAt(txt, 1, Fence) THEN Unfence(txt) ELSE txt

\* isinstance(i, int): bool is a subclass of int
IsInstanceInt(v) == v.k \in {"int", "bool"}

RECURSIVE Distinct(_)
Distinct(items) ==
    IF items = <<>> THEN <<>>
    ELSE LET front == Distinct(SubSeq(items, 1, Len(items) - 1))
             last == items[Len(items)]
         IN  IF \E i \in 1..Len(front) : front[i] = last THEN front
             ELSE Append(front, last)

\* a check that also drops the repeated elements of the list it accepts
CheckedDistinct(out) ==
    IF out.k = "list" /\ \A i \in 1..Len(out.s) : IsInstanceInt(out.s[i])
    THEN Ok(Distinct(out.s))
    ELSE Raise("ValueError")

\* lines 65-67: the list itself, or ValueError
Checked(out) ==
    IF out.k = "list" /\ \A i \in 1..Len(out.s) : IsInstanceInt(out.s[i])
    THEN Ok(out.s)
    ELSE Raise("ValueError")

\* lines 64-67 once json.loads is through: its error, or the check
CheckLoaded(out) == IF out.ok THEN Checked(out.val) ELSE out

\* lines 60-67: what the try block does with the output of a finished process
Validate(stdout) == CheckLoaded(Loads(ParserInput(stdout)))

---------------------------------------------------------------------------
(* The handler rerank, lines 36-69.                                        *)

\* line 68, except Exception: every exception the try block can raise here
\* derives from Exception
Exceptions ==
    {"FileNotFoundError", "TimeoutExpired", "OSError", "UnicodeDecodeError",
     "JSONDecodeError", "ValueError", "TypeError", "AttributeError"}

\* a clause that names ValueError only (JSONDecodeError and
\* UnicodeDecodeError derive from it)
CatchesValueError(exc) ==
    exc \in {"ValueError", "JSONDecodeError", "UnicodeDecodeError"}

\* line 68
Catches(exc) == exc \in Exceptions

\* a clause that sends a timed-out request back to run the process again
AfterExceptRetry(exc) == IF exc = "TimeoutExpired" THEN "queued" ELSE "done"

\* line 69: the except clause returns; nothing leads back to line 59
AfterExcept(exc) == "done"

NoResponse == [status |-> 0, body |-> <<>>, exc |-> ""]

\* what the HTTP client gets: the returned list with status 200, or the
\* framework's 500 for an exception that left the handler
Returned(body) == [status |-> 200, body |-> body, exc |-> ""]

Escaped(exc) == [status |-> 500, body |-> <<>>, exc |-> exc]

\* lines 67-69: the list is returned, or the exception is caught and the
\* fallback returned
Handle(got) ==
    IF got.ok THEN [resp |-> Returned(got.val), next |-> "done"]
    ELSE IF Catches(got.exc)
         THEN [resp |-> Returned(<<>>), next |-> AfterExcept(got.exc)]
    ELSE [resp |-> Escaped(got.exc), next |-> "done"]

\* lines 57-69 from the point where subprocess.run ends: res is how it ended
\* (the process exited, or run raised res.how)
TryBlock(res) ==
    Handle(IF res.how = "exited" THEN Validate(res.stdout) ELSE Raise(res.how))

---------------------------------------------------------------------------
(* Inputs.                                                                 *)

\* requests in flight in the server process
NumRequests == 2

\* candidates of a request
MaxCands == 2

\* stages of a plan, and tokens of a stage
MaxStages == 3

MaxTokens == 4

\* elements of the list the process prints
MaxElems == 2

Requests == 1..NumRequests

SeqsUpTo(S, n) == UNION {[1..m -> S] : m \in 0..n}

Ctx(size, clutter, heat, gas, noise) ==
    [size |-> size, clutter |-> clutter, heat |-> heat, gas |-> gas, noise |-> noise]

Cand(index, pred, steps) == [index |-> index, pred_ms |-> pred, steps |-> steps]

Req(ctx, cands) == [ctx |-> ctx, candidates |-> cands]

\* {size: 2.0, clutter: 0.5, heat: true, gas: false, noise: false}
ExampleCtx == Ctx(CNum(8), CNum(2), CBool(TRUE), CBool(FALSE), CBool(FALSE))

\* [["lidar_scan", "wait"]]
ExampleSteps == JList(<<JList(<<JStr(LidarScan), JStr(Wait)>>)>>)

\* {index: 0, pred_ms: 120, steps: [["lidar_scan", "wait"]]}
ExampleCand == Cand(0, 480, ExampleSteps)

ExampleReq == Req(ExampleCtx, <<ExampleCand>>)

EmptyReq == Req(ExampleCtx, <<>>)

NoReq == Req(Ctx(CNone, CNone, CNone, CNone, CNone), <<>>)

CtxSet ==
    { Ctx(a, b, c, d, e) :
        a \in {CNone, CNum(8), CNum(1), CNum(51), CBool(TRUE), CStr(1)},
        b \in {CNone, CNum(2), CNum(3), CStr(1)},
        c \in {CNone, CBool(TRUE), CBool(FALSE)},
        d \in {CBool(TRUE), CBool(FALSE), CNum(0)},
        e \in {CBool(TRUE), CBool(FALSE), CStr(5)} }

StringCycle ==
    <<JStr(LidarScan), JStr(Wait), JStr(<<"f", "o", "o">>), JStr(GasSniff),
      JStr(<<>>), JStr(AudioProbe), JStr(ThermalSnap), JStr(<<"w">>),
      JStr(<<"7", "x">>)>>

MixedCycle ==
    <<JStr(LidarScan), JStr(Wait), JStr(<<"f", "o", "o">>), JStr(GasSniff),
      JStr(<<>>), JStr(AudioProbe), JStr(ThermalSnap), JStr(<<"L", "x">>),
      JInt(5), JList(<<JStr(Wait)>>)>>

\* nStages stages of perStage tokens each, the tokens taken in turn from
\* cycle starting after offset; with junk, steps that are no list among them
StepsOf(cycle, nStages, perStage, offset, junk) ==
    LET tok(s, p) ==
            cycle[((offset + (s - 1) * perStage + p - 1) % Len(cycle)) + 1]
        stages == [s \in 1..nStages |-> JList([p \in 1..perStage |-> tok(s, p)])]
    IN  JList(IF junk /\ nStages > 0
              THEN <<JStr(Wait), stages[1], JInt(3)>> \o Tail(stages)
              ELSE stages)

StepsSet ==
    {JNone, JStr(Wait), JInt(7), JDict}
    \cup { StepsOf(cycle, n, m, off, junk) :
             cycle \in {StringCycle, MixedCycle}, n \in 0..MaxStages,
             m \in 0..MaxTokens, off \in 0..8, junk \in BOOLEAN }

BasicCands ==
    { Cand(i, p, st) : i \in {0, -3, 12}, p \in {480, 7, -6},
                       st \in {JNone, ExampleSteps} }

\* inputs of the encoder: every context with few candidates, ...
CtxInputs == { Req(c, cs) : c \in CtxSet, cs \in {<<>>, <<ExampleCand>>} }

\* ... lists of candidates, ...
CandInputs ==
    { Req(c, cs) : c \in {ExampleCtx, Ctx(CNum(3), CNum(1), CNone, CNone, CNone)},
                   cs \in SeqsUpTo(BasicCands, MaxCands) }

\* ... and one candidate with every plan
StepsInputs == { Req(ExampleCtx, <<Cand(1, 481, st)>>) : st \in StepsSet }

RECURSIVE ElemText(_)
ElemText(v) ==
    CASE v.k = "int" -> IntToStr(v.n)
      [] v.k = "float" -> v.s
      [] v.k = "str" -> <<"\"", "1", "\"">>
      [] v.k = "bool" -> IF v.n = 1 THEN <<"t", "r", "u", "e">>
                         ELSE <<"f", "a", "l", "s", "e">>
      [] v.k = "none" -> <<"n", "u", "l", "l">>
      [] v.k = "dict" -> <<"{", "}">>
      [] OTHER -> <<"[">> \o JoinWith(<<",">>, [i \in 1..Len(v.s) |-> ElemText(v.s[i])])
                  \o <<"]">>

ListText(elems, sep) ==
    <<"[">> \o JoinWith(sep, [i \in 1..Len(elems) |-> ElemText(elems[i])]) \o <<"]">>

Seps == {<<",">>, <<",", " ">>, <<",", "\n">>}

Elems ==
    {JInt(0), JInt(1), JInt(2), JInt(-1), JFloat(<<"2", ".", "5">>), JStr(<<>>),
     JBool(TRUE), JNone, JList(<<JInt(1)>>)}

ListBody(elems, sep) ==
    [text |-> ListText(elems, sep), kind |-> "list", elems |-> elems]

ListBodies(S, n) == { ListBody(es, sep) : es \in SeqsUpTo(S, n), sep \in Seps }

\* well-formed JSON that is no array
OtherBodies ==
    { [text |-> ElemText(v), kind |-> "other", elems |-> <<>>] :
        v \in {JInt(5), JStr(<<>>), JBool(TRUE), JNone, JDict,
               JFloat(<<"2", ".", "5">>)} }

\* text that is no JSON
GarbageBodies ==
    { [text |-> t, kind |-> "garbage", elems |-> <<>>] :
        t \in { <<>>, <<"a", "b", "c">>, <<"[", "1", ",">>, <<"[", "1", " ", "2", "]">>,
                <<"0", "1">>, <<"[", "1", ",", "]">>,
                <<"S", "u", "r", "e", "!", " ", "[", "1", "]">> } }

BasicBodies == ListBodies({JInt(1), JInt(2)}, 2) \cup OtherBodies \cup GarbageBodies

RichBodies == ListBodies(Elems, MaxElems)

Wrap(open, tag, nl1, nl2, close, pad) ==
    [open |-> open, tag |-> tag, nl1 |-> nl1, nl2 |-> nl2, close |-> close, pad |-> pad]

NoWrap == Wrap(FALSE, FALSE, FALSE, FALSE, FALSE, FALSE)

\* the fence with the language tag "json" on its first line, and without it
TaggedFence == Wrap(TRUE, TRUE, TRUE, TRUE, TRUE, FALSE)

PlainFence == Wrap(TRUE, FALSE, TRUE, TRUE, TRUE, FALSE)

AllWraps ==
    { Wrap(a, b, c, d, e, f) : a \in BOOLEAN, b \in BOOLEAN, c \in BOOLEAN,
                               d \in BOOLEAN, e \in BOOLEAN, f \in BOOLEAN }

WrapText(w, text) ==
    (IF w.pad THEN <<" ">> ELSE <<>>)
    \o (IF w.open THEN Fence ELSE <<>>)
    \o (IF w.tag THEN <<"j", "s", "o", "n">> ELSE <<>>)
    \o (IF w.nl1 THEN <<"\n">> ELSE <<>>)
    \o text
    \o (IF w.nl2 THEN <<"\n">> ELSE <<>>)
    \o (IF w.close THEN Fence ELSE <<>>)
    \o (IF w.pad THEN <<"\n">> ELSE <<>>)

\* how subprocess.run ended: the process exited with status rc having
\* printed the body b wrapped as w says, or run raised how
Exited(rc, w, b) ==
    [how |-> "exited", rc |-> rc, stdout |-> WrapText(w, b.text), wrap |-> w,
     kind |-> b.kind, elems |-> b.elems]

Failed(how) ==
    [how |-> how, rc |-> 0, stdout |-> <<>>, wrap |-> NoWrap, kind |-> "none",
     elems |-> <<>>]

NoResult == Failed("none")

\* raised once the process runs: the timeout of 15 s, an error reading its
\* pipes, output that is no text
RunFailures == {"TimeoutExpired", "OSError", "UnicodeDecodeError"}

\* the ways run can end: every failure and every wrapping of few bodies, ...
Endings ==
    { Failed(h) : h \in RunFailures \cup {"FileNotFoundError"} }
    \cup { Exited(rc, w, b) : rc \in {0, 1}, w \in AllWraps, b \in BasicBodies }

\* ... and every list, bare and in a fence with and without the tag
ListEndings ==
    { Exited(0, w, b) : w \in {NoWrap, TaggedFence, PlainFence}, b \in RichBodies }

\* the bodies of the requests the server is given
ReqSet ==
    { ExampleReq, EmptyReq,
      Req(Ctx(CNone, CNum(2), CBool(TRUE), CNone, CNone), <<ExampleCand>>),
      Req(ExampleCtx, <<Cand(1, 7, JList(<<JList(<<JStr(Wait), JInt(5)>>)>>))>>),
      Req(ExampleCtx, <<Cand(4, 7, JNone), ExampleCand>>) }

\* what the process of a request may print
ExitBodies ==
    { ListBody(<<JInt(2), JInt(0), JInt(1)>>, <<",">>),
      ListBody(<<JInt(1), JFloat(<<"2", ".", "5">>), JInt(3)>>, <<",", " ">>),
      ListBody(<<JBool(TRUE)>>, <<",">>),
      [text |-> <<"a", "b", "c">>, kind |-> "garbage", elems |-> <<>>],
      [text |-> <<>>, kind |-> "garbage", elems |-> <<>>] }

ExitSet ==
    { Exited(rc, NoWrap, b) : rc \in {0, 1}, b \in ExitBodies }
    \cup { Exited(rc, TaggedFence, ListBody(<<JInt(2), JInt(0), JInt(1)>>, <<",">>)) :
             rc \in {0, 1} }

---------------------------------------------------------------------------
(* The server: requests handled by one event loop.                         *)

\* the process of a request: its state, the prompt on its standard input
\* while it runs, and how run ended
NoProc == [state |-> "none", stdin |-> <<>>, res |-> NoResult]

\* lines 37 and 59: rerank is a coroutine function and subprocess.run blocks,
\* so while a handler waits for its process the event loop runs nothing else
EventLoopNeverBlocked == TRUE

EventLoopFree == \A q \in Requests : pc[q] # "running"

InitServer ==
    /\ pc = [r \in Requests |-> "idle"]
    /\ req = [r \in Requests |-> NoReq]
    /\ proc = [r \in Requests |-> NoProc]
    /\ launches = [r \in Requests |-> 0]
    /\ resp = [r \in Requests |-> NoResponse]

NoEncoderRun ==
    /\ encIn = NoReq
    /\ encOut = [done |-> FALSE, lines |-> Ok(<<>>), prompt |-> Ok(<<>>)]

NoValidatorRun ==
    /\ valIn = [req |-> NoReq, res |-> NoResult]
    /\ valOut = [done |-> FALSE, txt |-> <<>>, resp |-> NoResponse]

Init == InitServer /\ NoEncoderRun /\ NoValidatorRun

\* the request r is sent, with a body that passes validation, and waits for
\* the event loop to run its handler
Receive(r) ==
    /\ pc[r] = "idle"
    /\ \E body \in ReqSet : req' = [req EXCEPT ![r] = body]
    /\ pc' = [pc EXCEPT ![r] = "queued"]
    /\ UNCHANGED <<proc, launches, resp, encIn, encOut, valIn, valOut>>

\* how the handler of r ends: its response, or back to the state next
Finish(r, out, p) ==
    /\ pc' = [pc EXCEPT ![r] = out.next]
    /\ proc' = [proc EXCEPT ![r] = p]
    /\ IF out.next = "done"
       THEN /\ resp' = [resp EXCEPT ![r] = out.resp]
            /\ req' = [req EXCEPT ![r] = NoReq]
       ELSE UNCHANGED <<resp, req>>

\* lines 38-55 raise: the exception leaves the handler
Raised(r, prompt) ==
    /\ ~prompt.ok
    /\ Finish(r, [resp |-> Escaped(prompt.exc), next |-> "done"], proc[r])
    /\ UNCHANGED launches

EncodeRaises(r) ==
    /\ pc[r] = "queued"
    /\ EventLoopFree
    /\ Raised(r, Prompt(req[r]))
    /\ UNCHANGED <<encIn, encOut, valIn, valOut>>

\* line 59: subprocess.run is called on the prompt
Started(r, prompt) ==
    /\ prompt.ok
    /\ launches' = [launches EXCEPT ![r] = @ + 1]

\* ... and cannot start the process
NotFound(r, prompt) ==
    /\ Started(r, prompt)
    /\ Finish(r, TryBlock(Failed("FileNotFoundError")),
              [state |-> "failed", stdin |-> <<>>,
               res |-> Failed("FileNotFoundError")])

LaunchFails(r) ==
    /\ pc[r] = "queued"
    /\ EventLoopFree
    /\ NotFound(r, Prompt(req[r]))
    /\ UNCHANGED <<encIn, encOut, valIn, valOut>>

\* ... starts the process and waits for it
Running(r, prompt) ==
    /\ Started(r, prompt)
    /\ proc' = [proc EXCEPT ![r] =
                    [state |-> "running", stdin |-> prompt.val, res |-> NoResult]]
    /\ pc' = [pc EXCEPT ![r] = "running"]
    /\ UNCHANGED <<req, resp>>

\* lines 38-59: the process is started on the prompt and run waits for it
Launch(r) ==
    /\ pc[r] = "queued"
    /\ EventLoopFree
    /\ Running(r, Prompt(req[r]))
    /\ UNCHANGED <<encIn, encOut, valIn, valOut>>

\* the process exits, and lines 60-69 run on what it printed
Exits(r) ==
    /\ pc[r] = "running"
    /\ \E res \in ExitSet :
          Finish(r, TryBlock(res), [state |-> "exited", stdin |-> <<>>, res |-> res])
    /\ UNCHANGED <<launches, encIn, encOut, valIn, valOut>>

\* run kills the process after 15 s, or fails to read its output
RunRaises(r) ==
    /\ pc[r] = "running"
    /\ \E how \in RunFailures :
          Finish(r, TryBlock(Failed(how)),
                 [state |-> "killed", stdin |-> <<>>, res |-> Failed(how)])
    /\ UNCHANGED <<launches, encIn, encOut, valIn, valOut>>

Next ==
    \E r \in Requests :
        \/ Receive(r)
        \/ EncodeRaises(r)
        \/ LaunchFails(r)
        \/ Launch(r)
        \/ Exits(r)
        \/ RunRaises(r)

Spec == Init /\ [][Next]_vars

---------------------------------------------------------------------------
(* The prompt encoder on its own.                                          *)

InitEncode ==
    /\ InitServer
    /\ NoValidatorRun
    /\ encIn \in CtxInputs \/ encIn \in CandInputs \/ encIn \in StepsInputs
    /\ encOut = [done |-> FALSE, lines |-> Ok(<<>>), prompt |-> Ok(<<>>)]

RunEncoder ==
    /\ ~encOut.done
    /\ encOut' = [done |-> TRUE, lines |-> Lines(encIn), prompt |-> Prompt(encIn)]
    /\ UNCHANGED <<pc, req, proc, launches, resp, encIn, valIn, valOut>>

SpecEncode == InitEncode /\ [][RunEncoder]_vars

---------------------------------------------------------------------------
(* The try block on its own, on every way subprocess.run can end.          *)

InitValidate ==
    /\ InitServer
    /\ NoEncoderRun
    /\ \/ \E r \in {ExampleReq, EmptyReq}, x \in Endings : valIn = [req |-> r, res |-> x]
       \/ \E x \in ListEndings : valIn = [req |-> ExampleReq, res |-> x]
    /\ valOut = [done |-> FALSE, txt |-> <<>>, resp |-> NoResponse]

RunTryBlock ==
    /\ ~valOut.done
    /\ valOut' = [done |-> TRUE,
                  txt |-> IF valIn.res.how = "exited"
                          THEN ParserInput(valIn.res.stdout) ELSE <<>>,
                  resp |-> TryBlock(valIn.res).resp]
    /\ UNCHANGED <<pc, req, proc, launches, resp, encIn, encOut, valIn>>

SpecValidate == InitValidate /\ [][RunTryBlock]_vars

---------------------------------------------------------------------------
(* Properties.                                                             *)

Done(r) == pc[r] = "done"

Fallback(response) == response.status = 200 /\ response.body = <<>>

AllIntegers(items) == \A i \in 1..Len(items) : items[i].k = "int"

\* C1: every request that passed body validation gets the normal response,
\* a list with status 200: no exception leaves the handler, also when ctx
\* lacks size or clutter or a stage holds a token that is no string.
C1_NoExceptionLeavesHandler ==
    \A r \in Requests : Done(r) => resp[r].status = 200

\* C2: when the process exits with a non-zero status the response is the
\* empty fallback, whatever the process printed.
C2_NonZeroExitFallsBack ==
    \A r \in Requests :
        (Done(r) /\ proc[r].state = "exited" /\ proc[r].res.rc # 0)
            => Fallback(resp[r])

\* C3: once the prompt is built, a launch failure, a timeout, a failure to
\* read the process's streams and output that is no JSON all give the same
\* normal response, the empty list with status 200.
C3_FailuresFallBack ==
    \A r \in Requests :
        (/\ Done(r)
         /\ launches[r] > 0
         /\ \/ proc[r].res.how \in
                  {"FileNotFoundError", "TimeoutExpired", "OSError", "UnicodeDecodeError"}
            \/ proc[r].res.how = "exited" /\ proc[r].res.kind = "garbage")
            => Fallback(resp[r])

C3_Witness ==
    \E r1 \in Requests, r2 \in Requests :
        /\ Done(r1) /\ proc[r1].res.how = "TimeoutExpired" /\ Fallback(resp[r1])
        /\ Done(r2) /\ proc[r2].res.how = "exited" /\ proc[r2].res.kind = "garbage"
        /\ Fallback(resp[r2])

\* C4: the first prompt line is "CTX: " and five fields separated by single
\* commas with nothing else between them; for the example context it is
\* "CTX: 2.0,0.50,1,0,0", and the example candidate's line is "0:120,LW".
C4_CtxLineFormat ==
    (encOut.done /\ encOut.lines.ok) =>
        LET line == encOut.lines.val[1]
        IN  /\ SubSeq(line, 1, 5) = <<"C", "T", "X", ":", " ">>
            /\ \A i \in 6..Len(line) : line[i] # " "
            /\ Cardinality({i \in 1..Len(line) : line[i] = ","}) = 4
            /\ encIn = ExampleReq =>
                  /\ line = <<"C", "T", "X", ":", " ", "2", ".", "0", ",", "0", ".",
                              "5", "0", ",", "1", ",", "0", ",", "0">>
                  /\ encOut.lines.val[5] = <<"0", ":", "1", "2", "0", ",", "L", "W">>

\* C5: a response other than the empty fallback is given only when the
\* parsed value is an array whose every element is a JSON integer.
C5_OnlyIntegerLists ==
    (valOut.done /\ valOut.resp.body # <<>>) =>
        /\ valIn.res.kind = "list"
        /\ AllIntegers(valIn.res.elems)
        /\ AllIntegers(valOut.resp.body)

\* Step 2 of the validator as the specification words it: strip the
\* backticks from both ends, drop everything up to and including the first
\* newline if one remains, then strip whitespace
SpecStep2(text) ==
    LET inner == Strip(text, {Backtick})
    IN  Strip(IF FirstNewline(inner) # 0 THEN AfterFirstNewline(inner) ELSE inner, PyWs)

\* C6: for output that starts with the fence once stripped, the text handed
\* to the JSON parser is what Step 2 prescribes; a fenced list of integers,
\* with or without the language tag, on one line or several, is returned.
C6_FenceStripping ==
    (/\ valOut.done
     /\ valIn.res.how = "exited"
     /\ MatchAt(Strip(valIn.res.stdout, PyWs), 1, Fence)) =>
        /\ valOut.txt = SpecStep2(Strip(valIn.res.stdout, PyWs))
        /\ (/\ valIn.res.wrap \in {TaggedFence, PlainFence}
            /\ valIn.res.kind = "list"
            /\ AllIntegers(valIn.res.elems))
              => valOut.resp.body = valIn.res.elems

\* the first n tokens of the one-level flattening of stages, read from
\* position p of stage i on
RECURSIVE TakeTokens(_, _, _, _)
TakeTokens(stages, i, p, n) ==
    IF n = 0 \/ i > Len(stages) THEN <<>>
    ELSE IF stages[i].k # "list" \/ p > Len(stages[i].s)
         THEN TakeTokens(stages, i + 1, 1, n)
    ELSE <<stages[i].s[p]>> \o TakeTokens(stages, i, p + 1, n - 1)

FirstTokens(steps, n) ==
    IF steps.k = "list" THEN TakeTokens(steps.s, 1, 1, n) ELSE <<>>

CodeOf(tok) ==
    CASE tok.s = LidarScan -> <<"L">>
      [] tok.s = ThermalSnap -> <<"T">>
      [] tok.s = GasSniff -> <<"G">>
      [] tok.s = AudioProbe -> <<"A">>
      [] tok.s = Wait -> <<"W">>
      [] tok.s = <<>> -> <<>>
      [] OTHER -> <<Upper(tok.s[1])>>

RECURSIVE Codes(_)
Codes(toks) == IF toks = <<>> THEN <<>> ELSE CodeOf(Head(toks)) \o Codes(Tail(toks))

ClaimedSignature(steps) == Codes(FirstTokens(steps, 8))

ClaimedLine(c) ==
    IntToStr(c.index) \o <<":">> \o IntToStr(TruncToInt(c.pred_ms)) \o <<",">>
    \o ClaimedSignature(c.steps)

StringTokens(toks) == \A i \in 1..Len(toks) : toks[i].k = "str"

KnownTokens(toks) ==
    \A i \in 1..Len(toks) :
        toks[i].k = "str"
        /\ toks[i].s \in {LidarScan, ThermalSnap, GasSniff, AudioProbe, Wait}

\* C7: the signature of a candidate is empty when steps is absent or no
\* list, and otherwise the codes, in order, of the first 8 tokens of the
\* one-level flattening of steps (steps that are no list dropped), a token's
\* code being L/T/G/A/W or its first character uppercased, empty for the
\* empty token; 8 or more known tokens give exactly 8 characters.
C7_Signature ==
    (/\ encOut.done
     /\ CtxLine(encIn.ctx).ok
     /\ \A i \in 1..Len(encIn.candidates) :
            StringTokens(FirstTokens(encIn.candidates[i].steps, 8))) =>
        /\ encOut.lines.ok
        /\ Len(encOut.lines.val) = 4 + Len(encIn.candidates)
        /\ \A i \in 1..Len(encIn.candidates) :
              LET c == encIn.candidates[i]
                  line == encOut.lines.val[4 + i]
              IN  /\ line = ClaimedLine(c)
                  /\ c.steps.k # "list" => line[Len(line)] = ","
                  /\ (Len(FirstTokens(c.steps, 8)) = 8
                      /\ KnownTokens(FirstTokens(c.steps, 8)))
                        => Len(line) = Len(ClaimedLine(Cand(c.index, c.pred_ms, JNone))) + 8

\* a plan of 12 tokens with steps that are no list among its stages, the
\* empty token among its first 8 and a token that is no string after them
C7_Witness ==
    /\ encOut.done
    /\ encOut.lines.ok
    /\ \E i \in 1..Len(encIn.candidates) :
          LET st == encIn.candidates[i].steps
          IN  /\ st.k = "list"
              /\ \E j \in 1..Len(st.s) : st.s[j].k # "list"
              /\ Len(FirstTokens(st, 12)) = 12
              /\ ~StringTokens(FirstTokens(st, 12))
              /\ \E j \in 1..8 : FirstTokens(st, 8)[j] = JStr(<<>>)
              /\ Len(encOut.lines.val[4 + i]) = Len(<<"1", ":", "1", "2", "0", ",">>) + 7

\* C8: when validation succeeds the response is the parsed sequence
\* unchanged, elements, order and duplicates, whatever the candidates of the
\* request are.
C8_ReturnedUnchanged ==
    (valOut.done /\ valIn.res.how = "exited") =>
        /\ valOut.resp.status = 200
        /\ valOut.resp.body # <<>> =>
              valIn.res.kind = "list" /\ valOut.resp.body = valIn.res.elems
        /\ (/\ valIn.res.kind = "list"
            /\ AllIntegers(valIn.res.elems)
            /\ valIn.res.wrap \in {NoWrap, TaggedFence})
              => valOut.resp.body = valIn.res.elems

\* a returned list that repeats an index and names one no candidate carries
C8_Witness ==
    /\ valOut.done
    /\ Len(valOut.resp.body) = 2
    /\ valOut.resp.body[1] = valOut.resp.body[2]
    /\ \A i \in 1..Len(valIn.req.candidates) :
          valIn.req.candidates[i].index # valOut.resp.body[1].n
    /\ valIn.req.candidates # <<>>

C10_SingleAttempt ==
    \A r \in Requests :
        /\ launches[r] <= 1
        /\ proc[r].state \in {"failed", "killed", "exited"} => Done(r)

C10_Witness ==
    \E r \in Requests :
        /\ Done(r)
        /\ proc[r].res.how = "TimeoutExpired"
        /\ launches[r] = 1
        /\ Fallback(resp[r])

=============================================================================
